---- MODULE Spec2Model ----
(***************************************************************************)
(* Model of win32-display-data, src/src/device.rs: the two listing         *)
(* functions connected_displays_all and connected_displays_physical, the   *)
(* lazy flat_map iterator they return, the OS calls they issue and the     *)
(* life cycle of the handles wrapped by WrappedPhysicalMonitor and         *)
(* WrappedFileHandle.                                                      *)
(*                                                                         *)
(* The operating system is the environment: every answer it gives is       *)
(* chosen nondeterministically when the call is issued, and recorded in    *)
(* the history variables genv / env (answers never asked stay "unasked").  *)
(***************************************************************************)
EXTENDS Naturals, Sequences, FiniteSets, TLC

\* ---------------------------------------------------------------- bounds
MaxMonitors == 2    \* logical monitors EnumDisplayMonitors may report
MaxSlots == 2       \* device slots of one monitor (and physical handles)
MaxModes == 2       \* entries of the display-mode array

Paths == 1..MaxSlots             \* DeviceID / monitorDevicePath values (0: none)
Techs == {"INTERNAL", "HDMI"}    \* DISPLAYCONFIG_VIDEO_OUTPUT_TECHNOLOGY values
FailCodes == {"ERROR_GEN_FAILURE", "ERROR_INVALID_PARAMETER"}

VARIABLES
    variant,    \* "none" | "all" | "physical": which listing function was called
    genv,       \* answers of the OS to the global calls; first: the code of the
                \* device-info query that failed, targets: the targets queried
    infoMap,    \* device_info_map captured by the closure: path -> tech or "none"
    denied,     \* paths of the targets whose device-info query was access-denied
    hmonitors,  \* length of the Vec<HMONITOR> (monitors are 1..hmonitors)
    cur,        \* monitors already taken from hmonitors.into_iter()
    front,      \* the flat_map's current inner vec::IntoIter (not yet yielded)
    pulling,    \* a next() call is in progress
    iter,       \* "none" | "live" | "done" | "dropped"
    out,        \* the elements next() has returned, in order
    held,       \* indices of out whose record the caller still owns
    requested,  \* number of next() calls made
    env,        \* answers of the OS for each monitor
    alloc,      \* handles the OS has handed out
    rel,        \* handle -> number of DestroyPhysicalMonitor / CloseHandle calls
    calls       \* OS call counters

vars == <<variant, genv, infoMap, denied, hmonitors, cur, front, pulling, iter,
          out, held, requested, env, alloc, rel, calls>>

\* ------------------------------------------------------------ data types
Monitors == 1..MaxMonitors
Slots == 1..MaxSlots

\* WrappedPhysicalMonitor(HANDLE) / WrappedFileHandle(HANDLE): the raw handle
PmHandle(m, i) == <<"pm", m, i>>
FhHandle(m, s) == <<"fh", m, s>>
AllHandles == {PmHandle(m, i) : m \in Monitors, i \in Slots}
                \cup {FhHandle(m, s) : m \in Monitors, s \in Slots}

\* Result<Device, SysError> / Result<PhysicalDevice, SysError>
\* mon, slot: the monitor and the device slot the element stems from (0: none)
\* pm, fh: index of the owned physical-monitor handle / slot of the owned file handle
OkElem(m, s, path, tech, pm, fh) ==
    [kind |-> "Ok", err |-> "none", mon |-> m, slot |-> s, path |-> path,
     tech |-> tech, pm |-> pm, fh |-> fh, code |-> "none"]
ErrElem(err, m, s, path, code) ==
    [kind |-> "Err", err |-> err, mon |-> m, slot |-> s, path |-> path,
     tech |-> "none", pm |-> 0, fh |-> 0, code |-> code]

\* handles a Result element owns (PhysicalDevice.physical_monitor, .file_handle)
ElemHandles(e) ==
    (IF e.pm # 0 THEN {PmHandle(e.mon, e.pm)} ELSE {})
    \cup (IF e.fh # 0 THEN {FhHandle(e.mon, e.fh)} ELSE {})

RECURSIVE SeqHandles(_)
SeqHandles(s) ==
    IF s = <<>> THEN <<>>
    ELSE (IF Head(s).pm # 0 THEN <<PmHandle(Head(s).mon, Head(s).pm)>> ELSE <<>>)
         \o (IF Head(s).fh # 0 THEN <<FhHandle(Head(s).mon, Head(s).fh)>> ELSE <<>>)
         \o SeqHandles(Tail(s))

\* Drop for WrappedPhysicalMonitor / WrappedFileHandle: one release call per drop
RECURSIVE Release(_, _)
Release(r, hs) ==
    IF hs = <<>> THEN r
    ELSE Release([r EXCEPT ![Head(hs)] = @ + 1], Tail(hs))

\* ------------------------------------------------------- OS answer spaces
\* one DISPLAYCONFIG_MODE_INFO with the outcome of its device-info query;
\* code2 is the answer to a repeated query of the same target
SourceMode == [infoType |-> "SOURCE", path |-> 1, tech |-> "INTERNAL",
               code |-> "ERROR_SUCCESS", code2 |-> "ERROR_SUCCESS"]
ModeSet ==
    {SourceMode}
    \cup {[infoType |-> "TARGET", path |-> p, tech |-> t,
           code |-> "ERROR_SUCCESS", code2 |-> "ERROR_SUCCESS"] : p \in Paths, t \in Techs}
    \cup {[infoType |-> "TARGET", path |-> p, tech |-> "INTERNAL",
           code |-> "ERROR_ACCESS_DENIED", code2 |-> "ERROR_ACCESS_DENIED"] : p \in Paths}
    \cup {[infoType |-> "TARGET", path |-> 1, tech |-> "INTERNAL",
           code |-> "ERROR_GEN_FAILURE", code2 |-> c2] :
             c2 \in FailCodes \cup {"ERROR_SUCCESS"}}
ModeLists == UNION {[1..k -> ModeSet] : k \in 0..MaxModes}

\* one device slot as EnumDisplayDevicesW reports it, with the outcome of
\* CreateFileW on its DeviceID
AbsentSlot == [kind |-> "absent", cf |-> "unasked"]
InactiveSlot == [kind |-> "inactive", cf |-> "unasked"]
SlotSet ==
    {AbsentSlot, InactiveSlot}
    \cup {[kind |-> "active", cf |-> c] : c \in {"ok", "denied", "other"}}

\* DISPLAY_DEVICEW.DeviceID of the device in slot s of monitor m: every device
\* of a monitor has its own path, and the monitors number them differently
DevicePath(m, s) == ((m + s) % MaxSlots) + 1

UnaskedEnv == [phys |-> "unasked", physN |-> 0, gmi |-> "unasked", slots |-> <<>>]
MonEnvs ==
    [phys : {"ok", "numFail", "fillFail"}, physN : 0..MaxSlots,
     gmi : {"ok", "fail"}, slots : [Slots -> SlotSet]]

ZeroCalls ==
    [gdcbs |-> 0, qdc |-> 0, dcgdi |-> 0, edm |-> 0, gnpm |-> 0, gpm |-> 0,
     gmi |-> 0, edd |-> 0, cf |-> 0]

EmptyMap == [p \in Paths |-> "none"]


AddCalls(c, d) == [k \in DOMAIN c |-> c[k] + (IF k \in DOMAIN d THEN d[k] ELSE 0)]

Min(a, b) == IF a < b THEN a ELSE b

\* ------------------------------------------------- get_device_info_map
\* the .filter(..).flat_map(..).collect::<Result<HashMap, _>>() over the modes:
\* stops at the first Err; a later insert of the same key overwrites
RECURSIVE CollectModes(_, _, _, _, _)
CollectModes(modes, i, map, den, n) ==
    IF i > Len(modes)
    THEN [ok |-> TRUE, map |-> map, denied |-> den, dcgdi |-> n,
          first |-> "none", code |-> "none", targets |-> n]
    ELSE LET mode == modes[i] IN
         IF mode.infoType # "TARGET"
         THEN CollectModes(modes, i + 1, map, den, n)
         ELSE IF mode.code = "ERROR_SUCCESS"
         THEN CollectModes(modes, i + 1, [map EXCEPT ![mode.path] = mode.tech], den, n + 1)
         ELSE IF mode.code = "ERROR_ACCESS_DENIED"
         THEN CollectModes(modes, i + 1, map, den \cup {mode.path}, n + 1)
         ELSE \* the error arm queries the same target a second time
              [ok |-> FALSE, map |-> map, denied |-> den, dcgdi |-> n + 2,
               first |-> mode.code, code |-> mode.code2, targets |-> n + 1]

\* gdcbs, qdc: "ok" | "fail", the outcome of GetDisplayConfigBufferSizes and
\* QueryDisplayConfig; modes: the filled mode array
get_device_info_map(gdcbs, qdc, modes) ==
    IF gdcbs = "fail"
    THEN [ok |-> FALSE, err |-> "GetDisplayConfigBufferSizesFailed", code |-> "none",
          map |-> EmptyMap, denied |-> {}, first |-> "none", targets |-> 0,
          calls |-> [gdcbs |-> 1],
          asked |-> [gdcbs |-> "fail", qdc |-> "unasked", dcgdi |-> "unasked"]]
    ELSE IF qdc = "fail"
    THEN [ok |-> FALSE, err |-> "QueryDisplayConfigFailed", code |-> "none",
          map |-> EmptyMap, denied |-> {}, first |-> "none", targets |-> 0,
          calls |-> [gdcbs |-> 1, qdc |-> 1],
          asked |-> [gdcbs |-> "ok", qdc |-> "fail", dcgdi |-> "unasked"]]
    ELSE LET c == CollectModes(modes, 1, EmptyMap, {}, 0) IN
         [ok |-> c.ok, err |-> IF c.ok THEN "none" ELSE "DisplayConfigGetDeviceInfoFailed",
          code |-> c.code,
          map |-> IF c.ok THEN c.map ELSE EmptyMap,
          denied |-> IF c.ok THEN c.denied ELSE {},
          first |-> c.first, targets |-> c.targets,
          calls |-> [gdcbs |-> 1, qdc |-> 1, dcgdi |-> c.dcgdi],
          asked |-> [gdcbs |-> "ok", qdc |-> "ok",
                     dcgdi |-> IF c.ok THEN "ok" ELSE "fail"]]

\* ------------------------------------------------- enum_display_monitors
\* edm: "ok" | "fail"; n: the number of monitors the callback was given
enum_display_monitors(edm, n) ==
    IF edm = "fail"
    THEN [ok |-> FALSE, err |-> "EnumDisplayMonitorsFailed", hmonitors |-> 0]
    ELSE [ok |-> TRUE, err |-> "none", hmonitors |-> n]

\* ----------------------------------- get_physical_monitors_from_hmonitor
\* Ok: the Vec<WrappedPhysicalMonitor>, as the indices 1..physN of its handles
get_physical_monitors_from_hmonitor(e) ==
    IF e.phys = "numFail"
    THEN [ok |-> FALSE, err |-> "GetPhysicalMonitorsFailed", pms |-> <<>>,
          calls |-> [gnpm |-> 1]]
    ELSE IF e.phys = "fillFail"
    THEN [ok |-> FALSE, err |-> "GetPhysicalMonitorsFailed", pms |-> <<>>,
          calls |-> [gnpm |-> 1, gpm |-> 1]]
    ELSE [ok |-> TRUE, err |-> "none", pms |-> [i \in 1..e.physN |-> i],
          calls |-> [gnpm |-> 1, gpm |-> 1]]

\* ------------------------------------- get_display_devices_from_hmonitor
\* (0..).map_while(EnumDisplayDevicesW(..).then_some(device)): the slots before
\* the first one the OS reports absent
RECURSIVE MapWhilePresent(_, _, _)
MapWhilePresent(m, slots, i) ==
    IF i > Len(slots) \/ slots[i].kind = "absent" THEN <<>>
    ELSE <<[slot |-> i, kind |-> slots[i].kind, path |-> DevicePath(m, i),
            cf |-> slots[i].cf]>> \o MapWhilePresent(m, slots, i + 1)

\* a variant of IsActive that keeps every device the enumeration found
IsPresent(d) == TRUE

\* .filter(|device| flag_set(device.StateFlags, DISPLAY_DEVICE_ACTIVE))
IsActive(d) == d.kind = "active"

get_display_devices_from_hmonitor(m, e) ==
    IF e.gmi = "fail"
    THEN [ok |-> FALSE, err |-> "GetMonitorInfoFailed", devs |-> <<>>,
          calls |-> [gmi |-> 1]]
    ELSE LET raw == MapWhilePresent(m, e.slots, 1) IN
         [ok |-> TRUE, err |-> "none", devs |-> SelectSeq(raw, IsActive),
          \* one call per device found and the one that reported "absent"
          calls |-> [gmi |-> 1, edd |-> Len(raw) + 1]]

\* a variant of get_file_handle_for_display_device without the access-denied
\* case: every failed open is an error
get_file_handle_no_skip(d) ==
    IF d.cf = "ok" THEN [tag |-> "Some"] ELSE [tag |-> "Err"]

\* ------------------------------------ get_file_handle_for_display_device
\* Result<Option<WrappedFileHandle>, SysError>
get_file_handle_for_display_device(d) ==
    IF d.cf = "ok" THEN [tag |-> "Some"]
    ELSE IF d.cf = "denied" THEN [tag |-> "None"]
    ELSE [tag |-> "Err"]

\* ---------------------------------------------- the flat_map closures
\* what one run of the closure does: the Vec it returns, the handles the OS
\* handed out during it, the handles dropped during it, the calls it issued
ClosureResult(elems, allocd, dropped, cs) ==
    [elems |-> elems, allocd |-> allocd, dropped |-> dropped, calls |-> cs]

\* a variant of Lookup that falls back to a default technology
LookupOrDefault(map, path) == IF map[path] = "none" THEN "INTERNAL" ELSE map[path]

\* device_info_map.get(&display_device.DeviceID)
Lookup(map, path) == map[path]

\* the .map(|(monitor_info, display_device)| ..) of connected_displays_all
MapAll(m, d, map) ==
    IF Lookup(map, d.path) = "none"
    THEN ErrElem("DeviceInfoMissing", m, d.slot, d.path, "none")
    ELSE OkElem(m, d.slot, d.path, Lookup(map, d.path), 0, 0)

ClosureAll(m, e, map) ==
    LET dd == get_display_devices_from_hmonitor(m, e) IN
    IF ~dd.ok
    THEN ClosureResult(<<ErrElem(dd.err, m, 0, 0, "none")>>, {}, <<>>, dd.calls)
    ELSE ClosureResult([i \in 1..Len(dd.devs) |-> MapAll(m, dd.devs[i], map)],
                       {}, <<>>, dd.calls)

\* a variant of DropVec that forgets the vector instead of dropping it
ForgetVec(m, pms) == <<>>

\* a Vec<WrappedPhysicalMonitor> going out of scope drops each of its handles
DropVec(m, pms) == [i \in 1..Len(pms) |-> PmHandle(m, pms[i])]

\* a variant of LengthsDiffer that leaves the lengths to the truncating zip
LengthsNeverDiffer(devs, pms) == FALSE

\* display_devices.len() != physical_monitors.len()
LengthsDiffer(devs, pms) == Len(devs) # Len(pms)

\* a variant of Zip that pairs the handles with the devices left after the
\* access-denied ones were taken out
ZipAfterSkip(pms, devs) ==
    LET kept == SelectSeq(devs, LAMBDA d : d.cf # "denied") IN
    [i \in 1..Min(Len(pms), Len(kept)) |-> [pm |-> pms[i], dev |-> kept[i]]]

\* physical_monitors.into_iter().zip(display_devices)
Zip(pms, devs) ==
    [i \in 1..Min(Len(pms), Len(devs)) |-> [pm |-> pms[i], dev |-> devs[i]]]

\* the .filter_map(..).map(..).collect() over the zipped pairs, one pair at a
\* time: CreateFileW, then the lookup, then the PhysicalDevice
RECURSIVE CollectPairs(_, _, _, _)
CollectPairs(m, pairs, i, map) ==
    IF i > Len(pairs) THEN ClosureResult(<<>>, {}, <<>>, [cf |-> 0])
    ELSE
      LET p == pairs[i]
          fhr == get_file_handle_for_display_device(p.dev)
          rest == CollectPairs(m, pairs, i + 1, map)
          pmh == PmHandle(m, p.pm)
          fhh == FhHandle(m, p.dev.slot)
          cs == [cf |-> rest.calls.cf + 1]
      IN
      IF fhr.tag = "None"
      THEN \* filter_map drops the pair, and with it the physical monitor
           ClosureResult(rest.elems, rest.allocd, <<pmh>> \o rest.dropped, cs)
      ELSE IF fhr.tag = "Err"
      THEN ClosureResult(
             <<ErrElem("OpeningMonitorDeviceInterfaceHandleFailed", m, p.dev.slot,
                       p.dev.path, "none")>> \o rest.elems,
             rest.allocd, <<pmh>> \o rest.dropped, cs)
      ELSE IF Lookup(map, p.dev.path) = "none"
      THEN ClosureResult(
             <<ErrElem("DeviceInfoMissing", m, p.dev.slot, p.dev.path, "none")>>
               \o rest.elems,
             rest.allocd \cup {fhh}, <<pmh, fhh>> \o rest.dropped, cs)
      ELSE ClosureResult(
             <<OkElem(m, p.dev.slot, p.dev.path, Lookup(map, p.dev.path),
                      p.pm, p.dev.slot)>> \o rest.elems,
             rest.allocd \cup {fhh}, rest.dropped, cs)

ClosurePhysical(m, e, map) ==
    LET pm == get_physical_monitors_from_hmonitor(e) IN
    IF ~pm.ok
    THEN ClosureResult(<<ErrElem(pm.err, m, 0, 0, "none")>>, {}, <<>>, pm.calls)
    ELSE
      LET got == {PmHandle(m, pm.pms[i]) : i \in 1..Len(pm.pms)}
          dd == get_display_devices_from_hmonitor(m, e)
          cs == AddCalls(AddCalls(ZeroCalls, pm.calls), dd.calls)
      IN
      IF ~dd.ok
      THEN ClosureResult(<<ErrElem(dd.err, m, 0, 0, "none")>>, got,
                         DropVec(m, pm.pms), cs)
      ELSE IF LengthsDiffer(dd.devs, pm.pms)
      THEN ClosureResult(<<ErrElem("EnumerationMismatch", m, 0, 0, "none")>>,
                         got, DropVec(m, pm.pms), cs)
      ELSE LET c == CollectPairs(m, Zip(pm.pms, dd.devs), 1, map) IN
           ClosureResult(c.elems, got \cup c.allocd, c.dropped, AddCalls(cs, c.calls))

Closure(v, m, e, map) ==
    IF v = "all" THEN ClosureAll(m, e, map) ELSE ClosurePhysical(m, e, map)

\* ------------------------------------------- the answers actually asked
\* env records an answer only if the call was issued
ActivePrefix(e) == SelectSeq(MapWhilePresent(1, e.slots, 1), IsActive)

AskedSlots(e, withCf) ==
    [s \in Slots |->
        IF withCf /\ e.slots[s].kind = "active"
           /\ \E i \in 1..Len(ActivePrefix(e)) : ActivePrefix(e)[i].slot = s
        THEN e.slots[s]
        ELSE [e.slots[s] EXCEPT !.cf = "unasked"]]

AskedEnv(v, e) ==
    IF v = "all"
    THEN IF e.gmi = "fail"
         THEN [phys |-> "unasked", physN |-> 0, gmi |-> "fail", slots |-> <<>>]
         ELSE [phys |-> "unasked", physN |-> 0, gmi |-> "ok",
               slots |-> AskedSlots(e, FALSE)]
    ELSE IF e.phys # "ok"
    THEN [phys |-> e.phys, physN |-> 0, gmi |-> "unasked", slots |-> <<>>]
    ELSE IF e.gmi = "fail"
    THEN [phys |-> "ok", physN |-> e.physN, gmi |-> "fail", slots |-> <<>>]
    ELSE [phys |-> "ok", physN |-> e.physN, gmi |-> "ok",
          slots |-> AskedSlots(e, Len(ActivePrefix(e)) = e.physN)]

\* the device table of one monitor: what lies behind the first absent slot is
\* never read, one shape of it is enough
SlotsShape(e) ==
    \A s \in Slots : \A t \in Slots :
        (s < t /\ e.slots[s].kind = "absent") =>
            e.slots[t] \in {AbsentSlot, [kind |-> "active", cf |-> "ok"]}

\* a variant of Prologue that builds the monitor list before it looks at the
\* outcome of the map
PrologueEnumFirst(gdcbs, qdc, modes, edm, n) ==
    LET im == get_device_info_map(gdcbs, qdc, modes)
        hm == enum_display_monitors(edm, n)
        cs == AddCalls(AddCalls(ZeroCalls, im.calls), [edm |-> 1])
    IN
    IF ~im.ok
    THEN [short |-> TRUE, front |-> <<ErrElem(im.err, 0, 0, 0, im.code)>>,
          map |-> EmptyMap, denied |-> {}, hmonitors |-> 0, calls |-> cs,
          asked |-> [gdcbs |-> im.asked.gdcbs, qdc |-> im.asked.qdc,
                     dcgdi |-> im.asked.dcgdi, first |-> im.first,
                     targets |-> im.targets, edm |-> edm]]
    ELSE IF ~hm.ok
    THEN [short |-> TRUE, front |-> <<ErrElem(hm.err, 0, 0, 0, "none")>>,
          map |-> EmptyMap, denied |-> im.denied, hmonitors |-> 0, calls |-> cs,
          asked |-> [gdcbs |-> "ok", qdc |-> "ok", dcgdi |-> "ok", first |-> "none",
                    targets |-> im.targets,
                     edm |-> edm]]
    ELSE [short |-> FALSE, front |-> <<>>, map |-> im.map, denied |-> im.denied,
          hmonitors |-> hm.hmonitors, calls |-> cs,
          asked |-> [gdcbs |-> "ok", qdc |-> "ok", dcgdi |-> "ok", first |-> "none",
                    targets |-> im.targets,
                     edm |-> edm]]

\* ------------------------------------------------------------- prologue
\* connected_displays_all / connected_displays_physical up to the flat_map:
\* the map, then the monitor list, each short-circuiting to once(Err(e))
Prologue(gdcbs, qdc, modes, edm, n) ==
    LET im == get_device_info_map(gdcbs, qdc, modes) IN
    IF ~im.ok
    THEN [short |-> TRUE, front |-> <<ErrElem(im.err, 0, 0, 0, im.code)>>,
          map |-> EmptyMap, denied |-> {}, hmonitors |-> 0,
          calls |-> AddCalls(ZeroCalls, im.calls),
          asked |-> [gdcbs |-> im.asked.gdcbs, qdc |-> im.asked.qdc,
                     dcgdi |-> im.asked.dcgdi, first |-> im.first,
                     targets |-> im.targets, edm |-> "unasked"]]
    ELSE
      LET hm == enum_display_monitors(edm, n)
          cs == AddCalls(AddCalls(ZeroCalls, im.calls), [edm |-> 1])
          asked == [gdcbs |-> "ok", qdc |-> "ok", dcgdi |-> "ok", first |-> "none",
                    targets |-> im.targets,
                    edm |-> edm]
      IN
      IF ~hm.ok
      THEN [short |-> TRUE, front |-> <<ErrElem(hm.err, 0, 0, 0, "none")>>,
            map |-> EmptyMap, denied |-> im.denied, hmonitors |-> 0, calls |-> cs,
            asked |-> asked]
      ELSE [short |-> FALSE, front |-> <<>>, map |-> im.map, denied |-> im.denied,
            hmonitors |-> hm.hmonitors, calls |-> cs, asked |-> asked]

\* --------------------------------------------------------------- actions
NoGenv == [gdcbs |-> "unasked", qdc |-> "unasked", dcgdi |-> "unasked",
           first |-> "none", targets |-> 0, edm |-> "unasked"]

Init ==
    /\ variant = "none"
    /\ genv = NoGenv
    /\ infoMap = EmptyMap
    /\ denied = {}
    /\ hmonitors = 0
    /\ cur = 0
    /\ front = <<>>
    /\ pulling = FALSE
    /\ iter = "none"
    /\ out = <<>>
    /\ held = {}
    /\ requested = 0
    /\ env = [m \in Monitors |-> UnaskedEnv]
    /\ alloc = {}
    /\ rel = [h \in AllHandles |-> 0]
    /\ calls = ZeroCalls

Call(v) ==
    /\ variant = "none"
    /\ \E gdcbs \in {"ok", "fail"}, qdc \in {"ok", "fail"}, modes \in ModeLists,
          edm \in {"ok", "fail"}, n \in 0..MaxMonitors :
         LET r == Prologue(gdcbs, qdc, modes, edm, n) IN
         /\ variant' = v
         /\ genv' = r.asked
         /\ infoMap' = r.map
         /\ denied' = r.denied
         /\ hmonitors' = r.hmonitors
         /\ front' = r.front
         /\ calls' = r.calls
         /\ iter' = "live"
    /\ UNCHANGED <<cur, pulling, out, held, requested, env, alloc, rel>>

\* connected_displays_all()
CallAll == Call("all")

\* connected_displays_physical()
CallPhysical == Call("physical")

\* the caller calls next() on the returned iterator
Request ==
    /\ iter = "live"
    /\ ~pulling
    /\ pulling' = TRUE
    /\ requested' = requested + 1
    /\ UNCHANGED <<variant, genv, infoMap, denied, hmonitors, cur, front, iter, out,
                   held, env, alloc, rel, calls>>

\* FlatMap::next: the inner iterator has an element, return it
YieldFront ==
    /\ pulling
    /\ front # <<>>
    /\ out' = Append(out, Head(front))
    /\ front' = Tail(front)
    /\ held' = IF ElemHandles(Head(front)) # {} THEN held \cup {Len(out) + 1} ELSE held
    /\ pulling' = FALSE
    /\ UNCHANGED <<variant, genv, infoMap, denied, hmonitors, cur, iter, requested,
                   env, alloc, rel, calls>>

\* a variant of ClosureEnabled that does not wait for a next() call
ClosureEnabledEager == front = <<>> /\ cur < hmonitors

\* when the closure runs: FlatMap::next found the inner iterator empty and
\* hmonitors.into_iter() has a next monitor
ClosureEnabled == pulling /\ front = <<>> /\ cur < hmonitors

\* a variant of AfterClosure that gives up the remaining monitors once the
\* closure returned an error
AfterClosureAbort(m, r, n) ==
    IF \E i \in 1..Len(r.elems) : r.elems[i].kind = "Err" THEN n ELSE m

\* hmonitors.into_iter() after the closure ran on monitor m and returned r
\* (n monitors in all): one monitor further, whatever the closure returned
AfterClosure(m, r, n) == m

\* FlatMap::next: take the next monitor and run the closure on it
RunClosure ==
    /\ iter = "live"
    /\ ClosureEnabled
    /\ \E e \in MonEnvs :
         /\ SlotsShape(e)
         /\ LET m == cur + 1
                r == Closure(variant, m, e, infoMap)
            IN
            /\ cur' = AfterClosure(m, r, hmonitors)
            /\ front' = r.elems
            /\ alloc' = alloc \cup r.allocd
            /\ rel' = Release(rel, r.dropped)
            /\ calls' = AddCalls(calls, r.calls)
            /\ env' = [env EXCEPT ![m] = AskedEnv(variant, e)]
    /\ UNCHANGED <<variant, genv, infoMap, denied, hmonitors, pulling, iter, out, held,
                   requested>>

\* FlatMap::next: both iterators are empty, return None
Exhausted ==
    /\ pulling
    /\ front = <<>>
    /\ cur = hmonitors
    /\ iter' = "done"
    /\ pulling' = FALSE
    /\ UNCHANGED <<variant, genv, infoMap, denied, hmonitors, cur, front, out, held,
                   requested, env, alloc, rel, calls>>

\* the caller drops a PhysicalDevice it was given
DropRecord ==
    /\ \E i \in held :
         /\ rel' = Release(rel, SeqHandles(<<out[i]>>))
         /\ held' = held \ {i}
    /\ UNCHANGED <<variant, genv, infoMap, denied, hmonitors, cur, front, pulling, iter,
                   out, requested, env, alloc, calls>>

\* the caller drops the iterator, with whatever the inner vec::IntoIter holds
DropIter ==
    /\ iter \in {"live", "done"}
    /\ ~pulling
    /\ iter' = "dropped"
    /\ rel' = Release(rel, SeqHandles(front))
    /\ front' = <<>>
    /\ UNCHANGED <<variant, genv, infoMap, denied, hmonitors, cur, pulling, out, held,
                   requested, env, alloc, calls>>

Next ==
    \/ CallAll
    \/ CallPhysical
    \/ Request
    \/ YieldFront
    \/ RunClosure
    \/ Exhausted
    \/ DropRecord
    \/ DropIter

Spec == Init /\ [][Next]_vars

\* ======================================================================
\* vocabulary of the properties
\* ======================================================================

\* the inner iterator still holds what it has not yielded
Live == iter \in {"live", "done"}

\* everything produced so far: yielded, or waiting in the inner iterator
Produced == out \o front

\* the elements that stem from monitor m
ElemsOf(m) == SelectSeq(Produced, LAMBDA x : x.mon = m)

\* the elements that stem from the device in slot s of monitor m
ElemsOfDevice(m, s) == SelectSeq(Produced, LAMBDA x : x.mon = m /\ x.slot = s)

\* both global steps succeeded: the sequence is the flat_map
Listing == variant # "none" /\ genv.dcgdi = "ok" /\ genv.edm = "ok"

\* the device enumeration of monitor m was answered
Enumerated(m) == env[m].gmi = "ok"

\* the active devices of monitor m that the enumeration reaches
ActiveSlots(m) ==
    {s \in Slots : /\ env[m].slots[s].kind = "active"
                   /\ \A t \in Slots : t < s => env[m].slots[t].kind # "absent"}

\* position of slot s among the active devices of monitor m
Rank(m, s) == Cardinality({t \in ActiveSlots(m) : t <= s})

\* physical variant: both per-monitor sequences were obtained
BothObtained(m) == variant = "physical" /\ env[m].phys = "ok" /\ Enumerated(m)

\* physical variant: the two sequences differ in length
Mismatch(m) == BothObtained(m) /\ Cardinality(ActiveSlots(m)) # env[m].physN

\* physical variant: the two sequences were zipped
Zipped(m) == BothObtained(m) /\ Cardinality(ActiveSlots(m)) = env[m].physN

\* ======================================================================
\* C1: in connected_displays_physical, a monitor whose number of physical
\* monitor handles differs from its number of active display devices gives
\* exactly one element, the EnumerationMismatch error, and no PhysicalDevice;
\* every other monitor is still processed and gives one element for each of
\* its devices whose control handle did not answer access-denied.
C1_MismatchIsOneError ==
    /\ \A m \in Monitors :
         (Live /\ m <= cur /\ variant = "physical") =>
            /\ Mismatch(m) =>
                 ElemsOf(m) = <<ErrElem("EnumerationMismatch", m, 0, 0, "none")>>
            /\ Zipped(m) =>
                 /\ \A s \in ActiveSlots(m) :
                      Len(ElemsOfDevice(m, s)) =
                        IF env[m].slots[s].cf = "denied" THEN 0 ELSE 1
                 /\ \A i \in 1..Len(ElemsOf(m)) : ElemsOf(m)[i].slot \in ActiveSlots(m)
    /\ (iter = "done" /\ Listing) => (cur = hmonitors /\ front = <<>>)

\* a mismatching monitor was followed by a monitor that gave two elements
C1_Witness ==
    /\ variant = "physical" /\ iter = "done" /\ hmonitors = 2
    /\ Mismatch(1) /\ env[1].physN = 2
    /\ Zipped(2) /\ Len(ElemsOf(2)) = 2
    /\ Len(out) = 3

\* ======================================================================
\* the element DeviceInfoMissing for the device in slot s of monitor m
MissingElem(m, s) == ErrElem("DeviceInfoMissing", m, s, DevicePath(m, s), "none")

\* monitor m got as far as its per-device elements
PerDevice(m) ==
    /\ Live /\ Listing /\ m <= cur
    /\ Enumerated(m)
    /\ variant = "physical" => Zipped(m)

\* C2 as stated: in both listing functions, every active display device whose
\* DeviceID has no entry in the target-info map gives the element
\* DeviceInfoMissing, never nothing and never another outcome.
C2_MissingInfoAlwaysReported ==
    \A m \in Monitors :
        PerDevice(m) =>
            \A s \in ActiveSlots(m) :
                infoMap[DevicePath(m, s)] = "none" =>
                    ElemsOfDevice(m, s) = <<MissingElem(m, s)>>

\* C2 as amended: the same, in connected_displays_physical only for the
\* devices whose CreateFileW succeeded.
C2_MissingInfoReportedIfOpened ==
    \A m \in Monitors :
        PerDevice(m) =>
            \A s \in ActiveSlots(m) :
                (/\ infoMap[DevicePath(m, s)] = "none"
                 /\ variant = "physical" => env[m].slots[s].cf = "ok") =>
                    ElemsOfDevice(m, s) = <<MissingElem(m, s)>>

\* connected_displays_physical yielded DeviceInfoMissing for an opened device
\* next to a PhysicalDevice of the same monitor
C2_Witness ==
    /\ variant = "physical"
    /\ \E m \in Monitors : \E s \in Slots : \E t \in Slots :
         /\ PerDevice(m) /\ {s, t} \subseteq ActiveSlots(m)
         /\ env[m].slots[s].cf = "ok" /\ infoMap[DevicePath(m, s)] = "none"
         /\ \E i \in 1..Len(out) : out[i] = MissingElem(m, s)
         /\ \E i \in 1..Len(out) : out[i].kind = "Ok" /\ out[i].mon = m /\ out[i].slot = t

\* ======================================================================
\* the element OpeningMonitorDeviceInterfaceHandleFailed naming the device in
\* slot s of monitor m (the slot stands for DISPLAY_DEVICEW.DeviceName)
OpenFailedElem(m, s) ==
    ErrElem("OpeningMonitorDeviceInterfaceHandleFailed", m, s, DevicePath(m, s), "none")

\* C3: in connected_displays_physical, a device whose CreateFileW fails with
\* access-denied gives no element at all; one whose CreateFileW fails with
\* another code gives exactly one OpeningMonitorDeviceInterfaceHandleFailed
\* element carrying its name; the other devices of the monitor are emitted
\* all the same.
C3_DeniedSkippedOtherReported ==
    \A m \in Monitors :
        (PerDevice(m) /\ variant = "physical") =>
            \A s \in ActiveSlots(m) :
                /\ env[m].slots[s].cf = "denied" => ElemsOfDevice(m, s) = <<>>
                /\ env[m].slots[s].cf = "other" =>
                     ElemsOfDevice(m, s) = <<OpenFailedElem(m, s)>>
                /\ env[m].slots[s].cf = "ok" =>
                     /\ Len(ElemsOfDevice(m, s)) = 1
                     /\ ElemsOfDevice(m, s)[1].err \in {"none", "DeviceInfoMissing"}

\* one monitor dropped an access-denied device and emitted the device after
\* it, the other reported a failed open and emitted the device after it
C3_Witness ==
    /\ variant = "physical" /\ iter = "done" /\ hmonitors = 2
    /\ PerDevice(1) /\ PerDevice(2)
    /\ ActiveSlots(1) = {1, 2} /\ ActiveSlots(2) = {1, 2}
    /\ env[1].slots[1].cf = "denied" /\ env[1].slots[2].cf = "ok"
    /\ env[2].slots[1].cf = "other" /\ env[2].slots[2].cf = "ok"
    /\ Len(out) = 3
    /\ out[1].kind = "Ok" /\ out[2] = OpenFailedElem(2, 1) /\ out[3].kind = "Ok"

\* ======================================================================
\* the records that own handle h: those waiting in the inner iterator and
\* those the caller holds
FrontOwners(h) == {i \in 1..Len(front) : h \in ElemHandles(front[i])}
HeldOwners(h) == {i \in held : h \in ElemHandles(out[i])}
OwnerCount(h) == Cardinality(FrontOwners(h)) + Cardinality(HeldOwners(h))

\* C4: every physical-monitor handle and every file handle the OS handed out
\* is owned by at most one record, is released at most once, and is released
\* exactly when no record owns it any more, on every path; once the iterator
\* and all emitted records are dropped every handle has been released once.
C4_HandlesReleasedOnce ==
    /\ \A h \in AllHandles :
         /\ rel[h] <= 1
         /\ OwnerCount(h) <= 1
         /\ h \notin alloc => (rel[h] = 0 /\ OwnerCount(h) = 0)
         /\ h \in alloc => OwnerCount(h) + rel[h] = 1
    /\ (iter = "dropped" /\ held = {}) => \A h \in alloc : rel[h] = 1

\* after a mismatching monitor with two physical handles, the caller took the
\* first PhysicalDevice of the second monitor, dropped it and abandoned the
\* iterator with the second one still inside
C4_Witness ==
    /\ variant = "physical" /\ iter = "dropped" /\ held = {}
    /\ Mismatch(1) /\ env[1].physN = 2
    /\ Zipped(2) /\ ActiveSlots(2) = {1, 2}
    /\ env[2].slots[1].cf = "ok" /\ env[2].slots[2].cf = "ok"
    /\ infoMap[DevicePath(2, 1)] # "none" /\ infoMap[DevicePath(2, 2)] # "none"
    /\ Len(out) = 2 /\ out[2].kind = "Ok" /\ out[2].slot = 1
    /\ Cardinality(alloc) = 6
    /\ \A h \in alloc : rel[h] = 1

\* ======================================================================
\* the target-info build failed / the monitor enumeration failed
BuildFailed == genv.gdcbs = "fail" \/ genv.qdc = "fail" \/ genv.dcgdi = "fail"
EnumFailed == genv.edm = "fail"

\* the error of the global step that failed
GlobalErr ==
    IF genv.gdcbs = "fail" THEN "GetDisplayConfigBufferSizesFailed"
    ELSE IF genv.qdc = "fail" THEN "QueryDisplayConfigFailed"
    ELSE IF genv.dcgdi = "fail" THEN "DisplayConfigGetDeviceInfoFailed"
    ELSE "EnumDisplayMonitorsFailed"

\* C5: in both listing functions, when the target-info build or the monitor
\* enumeration fails, the whole sequence is one element, that error; no
\* per-monitor call (GetMonitorInfoW, EnumDisplayDevicesW, the physical
\* monitor queries, CreateFileW) is issued, and EnumDisplayMonitors is not
\* called when the build failed.
C5_GlobalFailureIsOneElement ==
    (variant # "none" /\ (BuildFailed \/ EnumFailed)) =>
        /\ Live =>
             /\ Len(Produced) = 1
             /\ Produced[1].kind = "Err" /\ Produced[1].err = GlobalErr
             /\ Produced[1].mon = 0
        /\ iter = "done" => (Len(out) = 1 /\ requested = 2)
        /\ Len(out) <= 1
        /\ cur = 0
        /\ calls.gmi = 0 /\ calls.edd = 0 /\ calls.gnpm = 0 /\ calls.gpm = 0
        /\ calls.cf = 0
        /\ BuildFailed => calls.edm = 0

\* connected_displays_physical ended after the one error of a failed
\* device-info query that came after an access-denied one
C5_Witness ==
    /\ variant = "physical" /\ iter = "done"
    /\ genv.dcgdi = "fail" /\ calls.dcgdi = 3
    /\ Len(out) = 1 /\ out[1].err = "DisplayConfigGetDeviceInfoFailed"

\* ======================================================================
\* C6 as stated: the sequence is lazy per element; in particular, while the
\* caller holds the elements it asked for and every next() so far returned
\* one, no control handle has been opened for a device that lies behind the
\* device of the last element returned.
C6_LazyPerElement ==
    (variant = "physical" /\ iter = "live" /\ ~pulling /\ out # <<>>) =>
        \A m \in Monitors :
            PerDevice(m) =>
                \A s \in ActiveSlots(m) :
                    env[m].slots[s].cf # "unasked" =>
                        \/ m < out[Len(out)].mon
                        \/ m = out[Len(out)].mon /\ s <= out[Len(out)].slot

\* number of elements yielded that stem from monitors before m
YieldedBefore(m) == Cardinality({i \in 1..Len(out) : out[i].mon < m})

\* CreateFileW calls of the monitors 1..m: one per active device of every
\* monitor whose sequences were zipped
RECURSIVE OpensUpTo(_)
OpensUpTo(m) ==
    IF m = 0 THEN 0
    ELSE OpensUpTo(m - 1) + (IF Zipped(m) THEN Cardinality(ActiveSlots(m)) ELSE 0)

\* C6 as amended: the sequence is lazy per monitor. Nothing per-monitor is
\* called before the first next(); the calls of a monitor are issued only
\* once an element is requested after all elements of the monitors before it
\* were yielded, and then all of them at once, the CreateFileW of every
\* active device included; monitors not reached are never queried.
C6_LazyPerMonitor ==
    /\ requested = 0 =>
         /\ cur = 0
         /\ calls.gnpm = 0 /\ calls.gpm = 0 /\ calls.gmi = 0 /\ calls.edd = 0
         /\ calls.cf = 0
    /\ \A m \in Monitors :
         /\ m <= cur =>
              /\ requested > YieldedBefore(m)
              /\ \A i \in 1..Len(front) : front[i].mon >= m
         /\ m > cur => env[m] = UnaskedEnv
    /\ calls.gmi <= cur
    /\ calls.edd <= cur * (MaxSlots + 1)
    /\ variant = "all" => (calls.gnpm = 0 /\ calls.gpm = 0 /\ calls.cf = 0)
    /\ variant = "physical" =>
         /\ calls.gnpm = cur /\ calls.gpm <= cur
         /\ calls.cf = OpensUpTo(cur)

\* the caller has the first of the two elements of the first monitor: both
\* control handles were opened, the second monitor was not touched
C6_Witness ==
    /\ variant = "physical" /\ Listing /\ iter = "live" /\ ~pulling
    /\ hmonitors = 2 /\ cur = 1
    /\ requested = 1 /\ Len(out) = 1 /\ Len(front) = 1
    /\ out[1].kind = "Ok" /\ front[1].kind = "Ok"
    /\ calls.cf = 2 /\ calls.gnpm = 1
    /\ env[2] = UnaskedEnv

\* ======================================================================
\* C7: an access-denied answer to the per-target device-info query is not an
\* error: the build succeeds without that entry and the access-denied answer
\* never makes a failed element appear in the output of either listing
\* function. Here: no DeviceInfoMissing element is yielded for a device whose
\* path is that of a target skipped for access-denied.
C7_DeniedNeverFails ==
    \A i \in 1..Len(out) :
        ~(/\ out[i].kind = "Err"
          /\ out[i].err = "DeviceInfoMissing"
          /\ out[i].path \in denied)

\* ======================================================================
\* monitor m of connected_displays_physical had equal counts, every control
\* handle opened and every active device's path in the map
HappyMonitor(m) ==
    /\ PerDevice(m) /\ variant = "physical"
    /\ \A s \in ActiveSlots(m) :
         env[m].slots[s].cf = "ok" /\ infoMap[DevicePath(m, s)] # "none"

\* number of active devices of the monitors 1..m
RECURSIVE ActiveUpTo(_)
ActiveUpTo(m) ==
    IF m = 0 THEN 0 ELSE ActiveUpTo(m - 1) + Cardinality(ActiveSlots(m))

\* C8: in connected_displays_physical, when both global steps succeed and a
\* monitor has equal counts, every open succeeding and every active device's
\* path in the map, its elements are exactly one PhysicalDevice per active
\* device, in device-index order, each with the output technology the map
\* stores for its path; inactive devices and slots behind the first absent
\* one give nothing. Elements come in monitor order, and when this holds of
\* every monitor the whole output is one PhysicalDevice per active device.
C8_OnePhysicalDevicePerActiveDevice ==
    /\ \A m \in Monitors :
         HappyMonitor(m) =>
            /\ Len(ElemsOf(m)) = Cardinality(ActiveSlots(m))
            /\ \A i \in 1..Len(ElemsOf(m)) :
                 /\ ElemsOf(m)[i].kind = "Ok"
                 /\ ElemsOf(m)[i].slot \in ActiveSlots(m)
                 /\ ElemsOf(m)[i].path = DevicePath(m, ElemsOf(m)[i].slot)
                 /\ ElemsOf(m)[i].tech = infoMap[ElemsOf(m)[i].path]
            /\ \A i \in 1..Len(ElemsOf(m)) : \A j \in 1..Len(ElemsOf(m)) :
                 i < j => ElemsOf(m)[i].slot < ElemsOf(m)[j].slot
    /\ (Live /\ variant = "physical") =>
         \A i \in 1..Len(Produced) : \A j \in 1..Len(Produced) :
            i < j => Produced[i].mon <= Produced[j].mon
    /\ (/\ iter = "done" /\ Listing /\ variant = "physical"
        /\ \A m \in 1..hmonitors : HappyMonitor(m)) =>
         /\ Len(out) = ActiveUpTo(hmonitors)
         /\ \A i \in 1..Len(out) : out[i].kind = "Ok"

\* the first monitor gave its two PhysicalDevices, of different technology;
\* the second has an active device behind an absent slot and gave nothing
C8_Witness ==
    /\ variant = "physical" /\ iter = "done" /\ hmonitors = 2
    /\ HappyMonitor(1) /\ HappyMonitor(2)
    /\ ActiveSlots(1) = {1, 2}
    /\ env[2].slots[1].kind = "absent" /\ env[2].slots[2].kind = "active"
    /\ Len(out) = 2
    /\ out[1].kind = "Ok" /\ out[2].kind = "Ok"
    /\ out[1].slot = 1 /\ out[2].slot = 2
    /\ out[1].tech # out[2].tech

\* ======================================================================
\* the failure that is scoped to monitor m as a whole, "none" if there is none
MonitorErr(m) ==
    IF variant = "physical" /\ env[m].phys # "ok" THEN "GetPhysicalMonitorsFailed"
    ELSE IF env[m].gmi # "ok" THEN "GetMonitorInfoFailed"
    ELSE IF Mismatch(m) THEN "EnumerationMismatch"
    ELSE "none"

\* what the device in slot s of monitor m contributes, given only the answers
\* for that device and the map
ExpectedOfDevice(m, s) ==
    LET p == DevicePath(m, s) IN
    IF s \notin ActiveSlots(m) THEN <<>>
    ELSE IF variant = "physical" /\ env[m].slots[s].cf = "denied" THEN <<>>
    ELSE IF variant = "physical" /\ env[m].slots[s].cf = "other"
    THEN <<OpenFailedElem(m, s)>>
    ELSE IF infoMap[p] = "none" THEN <<MissingElem(m, s)>>
    ELSE IF variant = "physical"
    THEN <<OkElem(m, s, p, infoMap[p], Rank(m, s), s)>>
    ELSE <<OkElem(m, s, p, infoMap[p], 0, 0)>>

RECURSIVE ExpectedFrom(_, _)
ExpectedFrom(m, s) ==
    IF s > MaxSlots THEN <<>>
    ELSE ExpectedOfDevice(m, s) \o ExpectedFrom(m, s + 1)

\* what monitor m contributes, given only its own answers and the map
Expected(m) ==
    IF MonitorErr(m) # "none" THEN <<ErrElem(MonitorErr(m), m, 0, 0, "none")>>
    ELSE ExpectedFrom(m, 1)

RECURSIVE ExpectedUpTo(_)
ExpectedUpTo(m) == IF m = 0 THEN <<>> ELSE ExpectedUpTo(m - 1) \o Expected(m)

\* C9: a failure scoped to one monitor (GetMonitorInfoW, the physical-monitor
\* count or fill, a length mismatch) gives exactly one failed element for that
\* monitor, a failure scoped to one device (missing target info, failed open)
\* exactly one for that device; what any monitor contributes is fixed by its
\* own answers alone, whatever failed elsewhere, and the sequence goes on
\* after a failed element until every monitor was reached.
C9_FailuresStayLocal ==
    (Live /\ Listing) =>
        /\ \A m \in Monitors : m <= cur =>
             /\ env[m] # UnaskedEnv
             /\ ElemsOf(m) = Expected(m)
             /\ MonitorErr(m) # "none" =>
                  (Len(ElemsOf(m)) = 1 /\ ElemsOf(m)[1].kind = "Err")
        /\ Produced = ExpectedUpTo(cur)
        /\ iter = "done" => (cur = hmonitors /\ out = ExpectedUpTo(hmonitors))

\* the first monitor failed in GetMonitorInfoW after its physical handle was
\* obtained; the second gave DeviceInfoMissing for its first device and a
\* PhysicalDevice for its second
C9_Witness ==
    /\ variant = "physical" /\ iter = "done" /\ hmonitors = 2
    /\ env[1].phys = "ok" /\ env[1].physN = 1 /\ env[1].gmi = "fail"
    /\ Zipped(2) /\ ActiveSlots(2) = {1, 2}
    /\ Len(out) = 3
    /\ out[1].err = "GetMonitorInfoFailed"
    /\ out[2] = MissingElem(2, 1)
    /\ out[3].kind = "Ok" /\ out[3].slot = 2

\* ======================================================================
\* C10: in connected_displays_physical, every emitted PhysicalDevice owns the
\* physical-monitor handle at the index its display device has among the
\* active devices of its monitor (and the file handle opened for that very
\* device): dropping an access-denied device or emitting an error for one
\* never shifts a later device onto another handle.
C10_PairedByPosition ==
    variant = "physical" =>
        \A i \in 1..Len(out \o front) :
            LET x == (out \o front)[i] IN
            x.kind = "Ok" =>
                /\ Zipped(x.mon)
                /\ x.slot \in ActiveSlots(x.mon)
                /\ x.pm = Rank(x.mon, x.slot)
                /\ x.fh = x.slot
                /\ PmHandle(x.mon, x.pm) \in alloc
                /\ FhHandle(x.mon, x.fh) \in alloc

\* the second device of a monitor was emitted with the second handle although
\* the first device was dropped for access-denied
C10_Witness ==
    /\ variant = "physical"
    /\ \E m \in Monitors :
         /\ Zipped(m) /\ ActiveSlots(m) = {1, 2}
         /\ env[m].slots[1].cf = "denied"
         /\ ElemsOfDevice(m, 1) = <<>>
         /\ \E i \in 1..Len(out) :
              /\ out[i].kind = "Ok" /\ out[i].mon = m /\ out[i].slot = 2
              /\ out[i].pm = 2 /\ i \in held

\* ======================================================================
\* C11: when a per-target device-info query fails with a code other than
\* success or access-denied, the build fails with
\* DisplayConfigGetDeviceInfoFailed whose cause is the code that failing
\* query returned, and every target, the failing one included, is queried
\* once only.
C11_CauseIsOriginatingCode ==
    (variant # "none" /\ genv.dcgdi = "fail" /\ Live) =>
        /\ Len(Produced) = 1
        /\ Produced[1].err = "DisplayConfigGetDeviceInfoFailed"
        /\ Produced[1].code = genv.first
        /\ calls.dcgdi = genv.targets

====
